---- MODULE Spec2Model ----
(***************************************************************************)
(* A model of mcscoreboard.Scoreboard: the constructor (filter lists, the  *)
(* JSON and the .dat source branches, the PlayerScores loop), __dict__,    *)
(* and get_objective_scores.                                               *)
(*                                                                         *)
(* Python values are tagged records [t, v]; a str is a sequence of         *)
(* symbols (the leading '.' of a player name is a symbol of its own); a    *)
(* dict is the sequence of its (key, value) items in insertion order.      *)
(***************************************************************************)
EXTENDS Integers, Sequences, FiniteSets, TLC

\* Longest PlayerScores tag list of a source.
MaxEntries == 2
\* Longest whitelist.json / blacklist file.
MaxFileLen == 1

-----------------------------------------------------------------------------
(* Python values *)

PyInt(n) == [t |-> "int", v |-> n]
PyStr(s) == [t |-> "str", v |-> s]
PyList(xs) == [t |-> "list", v |-> xs]
PyDict(items) == [t |-> "dict", v |-> items]
\* An attribute that was never assigned.
Unset == [t |-> "unset", v |-> <<>>]

\* bool(x) of an int, a str, a list or a dict.
Truthy(x) == IF x.t = "int" THEN x.v # 0 ELSE Len(x.v) > 0

Range(xs) == {xs[i] : i \in DOMAIN xs}
Reverse(xs) == [i \in 1..Len(xs) |-> xs[Len(xs) + 1 - i]]

\* dict operations on the item sequence
Keys(items) == {items[i][1] : i \in DOMAIN items}
Has(items, k) == \E i \in DOMAIN items : items[i][1] = k
Get(items, k) == items[CHOOSE i \in DOMAIN items : items[i][1] = k][2]
Put(items, k, val) ==
    IF Has(items, k)
    THEN [i \in DOMAIN items |-> IF items[i][1] = k THEN <<k, val>> ELSE items[i]]
    ELSE Append(items, <<k, val>>)
Pop(items, k) == SelectSeq(items, LAMBDA it : it[1] # k)

\* a == b of two Python values: dicts compare by key set and values, not by order.
RECURSIVE PyEq(_, _)
PyEq(a, b) ==
    IF a.t # b.t THEN FALSE
    ELSE IF a.t = "dict"
    THEN /\ Keys(a.v) = Keys(b.v)
         /\ \A k \in Keys(a.v) : PyEq(Get(a.v, k), Get(b.v, k))
    ELSE IF a.t = "list"
    THEN /\ Len(a.v) = Len(b.v)
         /\ \A i \in DOMAIN a.v : PyEq(a.v[i], b.v[i])
    ELSE a.v = b.v

\* str.startswith
StartsWith(s, prefix) ==
    /\ Len(s) >= Len(prefix)
    /\ SubSeq(s, 1, Len(prefix)) = prefix

-----------------------------------------------------------------------------
(* JSON documents: json.dump / json.load *)

JNum(text) == [t |-> "number", v |-> text]
JStr(s) == [t |-> "string", v |-> s]
JArr(xs) == [t |-> "array", v |-> xs]
JObj(members) == [t |-> "object", v |-> members]

DigitChar == <<"0", "1", "2", "3", "4", "5", "6", "7", "8", "9">>

RECURSIVE DigitsOf(_)
DigitsOf(n) ==
    IF n < 10 THEN <<DigitChar[n + 1]>>
    ELSE Append(DigitsOf(n \div 10), DigitChar[(n % 10) + 1])

\* The decimal text json.dump writes for an int.
IntToText(n) == IF n < 0 THEN <<"-">> \o DigitsOf(0 - n) ELSE DigitsOf(n)

DigitVal(c) == CHOOSE d \in 0..9 : DigitChar[d + 1] = c

RECURSIVE DigitsToNat(_, _)
DigitsToNat(text, acc) ==
    IF text = <<>> THEN acc
    ELSE DigitsToNat(Tail(text), acc * 10 + DigitVal(Head(text)))

\* The int json.load reads from a decimal text.
TextToInt(text) ==
    IF Head(text) = "-" THEN 0 - DigitsToNat(Tail(text), 0)
    ELSE DigitsToNat(text, 0)

RECURSIVE JsonDump(_)
JsonDump(x) ==
    IF x.t = "int" THEN JNum(IntToText(x.v))
    ELSE IF x.t = "str" THEN JStr(x.v)
    ELSE IF x.t = "list" THEN JArr([i \in DOMAIN x.v |-> JsonDump(x.v[i])])
    ELSE JObj([i \in DOMAIN x.v |-> <<x.v[i][1], JsonDump(x.v[i][2])>>])

RECURSIVE JsonLoad(_)
RECURSIVE LoadMembers(_, _)
\* An object's members are inserted in document order; a repeated key overwrites.
LoadMembers(members, acc) ==
    IF members = <<>> THEN acc
    ELSE LoadMembers(Tail(members),
                     Put(acc, Head(members)[1], JsonLoad(Head(members)[2])))

JsonLoad(j) ==
    IF j.t = "number" THEN PyInt(TextToInt(j.v))
    ELSE IF j.t = "string" THEN PyStr(j.v)
    ELSE IF j.t = "array" THEN PyList([i \in DOMAIN j.v |-> JsonLoad(j.v[i])])
    ELSE PyDict(LoadMembers(j.v, <<>>))

\* json.loads of a text-component string, given as its tokens
\* "{" key ":" value ("," key ":" value)* "}" with string values.
RECURSIVE ParseMembers(_, _, _)
ParseMembers(toks, i, acc) ==
    IF toks[i] = "}" THEN acc
    ELSE LET next == IF toks[i + 3] = "," THEN i + 4 ELSE i + 3
         IN  ParseMembers(toks, next, Put(acc, <<toks[i]>>, PyStr(<<toks[i + 2]>>)))

JsonLoads(toks) == PyDict(ParseMembers(toks, 2, <<>>))

-----------------------------------------------------------------------------
(* Inputs *)

alice == <<"alice">>
dotsteve == <<".", "steve">>
PlayerNames == {alice, dotsteve}

health == <<"health">>
stone_mined == <<"stone_mined">>
ObjectiveNames == {health, stone_mined}

Scores == {-1, 0, 20}

\* The decoded tags of one PlayerScores entry.
EntryTags == [Name : PlayerNames, Objective : ObjectiveNames, Score : Scores]

SeqsUpTo(S, n) == UNION {[1..k -> S] : k \in 0..n}

EntryLists == SeqsUpTo(EntryTags, MaxEntries)

\* UUIDs of whitelist.json entries: an offline player's and an account's.
OfflineUuid == <<"00000000", "-", "0000", "-", "0000", "-", "0009", "-", "01f10c35a1b2">>
AccountUuid == <<"5c0d36d4", "-", "7d2a", "-", "4e0b", "-", "9a4e", "-", "6a1f0e23b9c7">>
\* '00000000-0000-0000-'
OfflinePrefix == <<"00000000", "-", "0000", "-", "0000", "-">>

FileEntries == [uuid : {OfflineUuid, AccountUuid}, name : PlayerNames]
\* The documents a whitelist or blacklist file can hold.
FilterFiles == SeqsUpTo(FileEntries, MaxFileLen)

\* The values of the player_whitelist / player_blacklist parameters:
\* the default '', a list of usernames, or a file path.
DefaultArg == PyStr(<<>>)
ListArgs == {PyList(<<alice, dotsteve>>)}
PathArg == PyStr(<<"players", ".", "json">>)
FilterArgs == {DefaultArg, PathArg} \cup ListArgs

\* Teams, Objectives and DisplaySlots of a .dat source: a scoreboard with a
\* team, two objectives (one name repeated) and a sidebar.
HealthName == <<"{", "text", ":", "Health", ",", "color", ":", "green", "}">>
StoneName == <<"{", "text", ":", "Stone Mined", "}">>
RedName == <<"{", "text", ":", "Red", "}">>

RedTeam ==
    [Name |-> <<"red">>, DeathMessageVisibility |-> <<"always">>,
     TeamColor |-> <<"red">>, SeeFriendlyInvisibles |-> 1,
     CollisionRule |-> <<"always">>, AllowFriendlyFire |-> 0,
     MemberNamePrefix |-> <<>>, NameTagVisibility |-> <<"always">>,
     MemberNameSuffix |-> <<>>, Players |-> <<alice, dotsteve>>,
     DisplayName |-> RedName]

ObjectiveTag(name, criteria, display) ==
    [Name |-> name, CriteriaName |-> criteria, RenderType |-> <<"integer">>,
     DisplayName |-> display]

SampleBoard ==
    [Teams |-> <<RedTeam>>,
     Objectives |-> <<ObjectiveTag(stone_mined, <<"dummy">>, StoneName),
                      ObjectiveTag(health, <<"health">>, HealthName),
                      ObjectiveTag(stone_mined,
                                   <<"minecraft.mined:minecraft.stone">>, StoneName)>>,
     DisplaySlots |-> <<<<<<"sidebar">>, health>>>>]

\* The 'data' compound of a new world's scoreboard.dat, also self.data before
\* a file is read.
NoData == [Teams |-> <<>>, Objectives |-> <<>>, DisplaySlots |-> <<>>,
           PlayerScores |-> <<>>]

\* The 'data' compound of a .dat file.
DatFiles ==
    {NoData} \cup
    {[Teams |-> SampleBoard.Teams, Objectives |-> SampleBoard.Objectives,
      DisplaySlots |-> SampleBoard.DisplaySlots, PlayerScores |-> es] :
        es \in EntryLists}

-----------------------------------------------------------------------------
(* Scoreboard.__init__ *)

VARIABLES
    pc,                 \* where the constructor stands
    data_source,        \* the suffix of the data_source path
    whitelist_arg,      \* the player_whitelist parameter
    blacklist_arg,      \* the player_blacklist parameter
    include_dot_names,  \* the include_dot_names parameter
    player_whitelist,   \* self.player_whitelist
    player_blacklist,   \* self.player_blacklist
    whitelist_json,     \* the document read from the whitelist file
    blacklist_json,     \* the document read from the blacklist file
    opened,             \* the files opened so far, in order
    data,               \* self.data
    next_entry,         \* position of the PlayerScores loop
    teams,              \* self.teams
    objectives,         \* self.objectives
    display_slots,      \* self.display_slots
    player_scores,      \* self.player_scores
    ranking,            \* the last get_objective_scores call and its result
    reloaded            \* the Scoreboard built from this one's JSON output

vars == <<pc, data_source, whitelist_arg, blacklist_arg, include_dot_names,
          player_whitelist, player_blacklist, whitelist_json, blacklist_json,
          opened, data, next_entry, teams, objectives, display_slots,
          player_scores, ranking, reloaded>>

args == <<data_source, whitelist_arg, blacklist_arg, include_dot_names>>
filters == <<player_whitelist, player_blacklist, whitelist_json, blacklist_json>>
record == <<teams, objectives, display_slots, player_scores>>

NoRanking == [called |-> FALSE, target |-> <<>>, ascending |-> FALSE, result |-> <<>>]
NoRecord == [teams |-> Unset, objectives |-> Unset, display_slots |-> Unset,
             player_scores |-> Unset]

Init ==
    /\ pc = "call"
    /\ data_source \in {"dat", "json"}
    /\ whitelist_arg \in FilterArgs
    /\ blacklist_arg \in FilterArgs
    /\ include_dot_names \in BOOLEAN
    /\ player_whitelist = <<>>
    /\ player_blacklist = <<>>
    /\ whitelist_json = <<>>
    /\ blacklist_json = <<>>
    /\ opened = <<>>
    /\ data = NoData
    /\ next_entry = 1
    /\ teams = Unset
    /\ objectives = Unset
    /\ display_slots = Unset
    /\ player_scores = Unset
    /\ ranking = NoRanking
    /\ reloaded = NoRecord

\* Mutant: only two username lists are refused, file paths slip through.
BothSuppliedAsLists(wl, bl) ==
    /\ wl.t = "list" /\ bl.t = "list"
    /\ Truthy(wl) /\ Truthy(bl)

\* if player_whitelist and player_blacklist
BothSupplied(wl, bl) == Truthy(wl) /\ Truthy(bl)

\* isinstance(x, (Path, str))
IsPath(x) == x.t = "str"

\* The ValueError of a whitelist together with a blacklist; otherwise both
\* self lists start empty.
CheckFilters ==
    /\ pc = "call"
    /\ pc' = IF BothSupplied(whitelist_arg, blacklist_arg) THEN "raised" ELSE "whitelist"
    /\ UNCHANGED <<args, filters, opened, data, next_entry, record, ranking, reloaded>>

\* Mutant: the whitelist loop without the uuid test.
RECURSIVE WhitelistNamesAll(_, _)
WhitelistNamesAll(json, acc) ==
    IF json = <<>> THEN acc
    ELSE WhitelistNamesAll(Tail(json), Append(acc, Head(json).name))

\* The loop over whitelist_json: names of the entries that are not offline players.
RECURSIVE WhitelistNames(_, _)
WhitelistNames(json, acc) ==
    IF json = <<>> THEN acc
    ELSE WhitelistNames(Tail(json),
                        IF ~StartsWith(Head(json).uuid, OfflinePrefix)
                        THEN Append(acc, Head(json).name)
                        ELSE acc)

\* The loop over blacklist_json.
RECURSIVE BlacklistNames(_, _)
BlacklistNames(json, acc) ==
    IF json = <<>> THEN acc
    ELSE BlacklistNames(Tail(json), Append(acc, Head(json).name))

ReadWhitelist ==
    /\ pc = "whitelist"
    /\ IF Truthy(whitelist_arg) /\ IsPath(whitelist_arg)
       THEN \E file \in FilterFiles :
                /\ opened' = Append(opened, "whitelist")
                /\ whitelist_json' = file
                /\ player_whitelist' = WhitelistNames(file, player_whitelist)
       ELSE UNCHANGED <<opened, whitelist_json, player_whitelist>>
    /\ pc' = "blacklist"
    /\ UNCHANGED <<args, player_blacklist, blacklist_json, data, next_entry,
                   record, ranking, reloaded>>

ReadBlacklist ==
    /\ pc = "blacklist"
    /\ IF Truthy(blacklist_arg) /\ IsPath(blacklist_arg)
       THEN \E file \in FilterFiles :
                /\ opened' = Append(opened, "blacklist")
                /\ blacklist_json' = file
                /\ player_blacklist' = BlacklistNames(file, player_blacklist)
       ELSE UNCHANGED <<opened, blacklist_json, player_blacklist>>
    /\ pc' = "source"
    /\ UNCHANGED <<args, player_whitelist, whitelist_json, data, next_entry,
                   record, ranking, reloaded>>

-----------------------------------------------------------------------------
(* The .dat branch *)

DisplayNameOf(text) ==
    PyDict(<< <<<<"json_dict">>, JsonLoads(text)>>,
              <<<<"json_string">>, PyStr(text)>> >>)

TeamValue(team) ==
    PyDict(<< <<<<"DeathMessageVisibility">>, PyStr(team.DeathMessageVisibility)>>,
              <<<<"TeamColor">>, PyStr(team.TeamColor)>>,
              <<<<"SeeFriendlyInvisibles">>, PyInt(team.SeeFriendlyInvisibles)>>,
              <<<<"CollisionRule">>, PyStr(team.CollisionRule)>>,
              <<<<"AllowFriendlyFire">>, PyInt(team.AllowFriendlyFire)>>,
              <<<<"MemberNamePrefix">>, PyStr(team.MemberNamePrefix)>>,
              <<<<"NameTagVisibility">>, PyStr(team.NameTagVisibility)>>,
              <<<<"MemberNameSuffix">>, PyStr(team.MemberNameSuffix)>>,
              <<<<"Players">>,
                PyList([k \in DOMAIN team.Players |-> PyStr(team.Players[k])])>>,
              <<<<"DisplayName">>, DisplayNameOf(team.DisplayName)>> >>)

\* for team in self.data['Teams']
RECURSIVE TeamsOf(_, _)
TeamsOf(tags, acc) ==
    IF tags = <<>> THEN acc
    ELSE TeamsOf(Tail(tags), Put(acc, Head(tags).Name, TeamValue(Head(tags))))

ObjectiveValue(obj) ==
    PyDict(<< <<<<"CriteriaName">>, PyStr(obj.CriteriaName)>>,
              <<<<"RenderType">>, PyStr(obj.RenderType)>>,
              <<<<"DisplayName">>, DisplayNameOf(obj.DisplayName)>> >>)

\* for obj in self.data['Objectives']
RECURSIVE ObjectivesOf(_, _)
ObjectivesOf(tags, acc) ==
    IF tags = <<>> THEN acc
    ELSE ObjectivesOf(Tail(tags), Put(acc, Head(tags).Name, ObjectiveValue(Head(tags))))

\* {slot: obj.value for slot, obj in self.data['DisplaySlots'].items()}
RECURSIVE DisplaySlotsOf(_, _)
DisplaySlotsOf(slots, acc) ==
    IF slots = <<>> THEN acc
    ELSE DisplaySlotsOf(Tail(slots), Put(acc, Head(slots)[1], PyStr(Head(slots)[2])))

\* Mutant: include_dot_names lets a dot name through the blacklist too.
SkipEntryDotsPassBlacklist(bl, wl, dots, player_name) ==
    \/ /\ Truthy(PyList(bl)) /\ player_name \in Range(bl)
       /\ ~(dots /\ StartsWith(player_name, <<".">>))
    \/ /\ Truthy(PyList(wl)) /\ player_name \notin Range(wl)
       /\ dots /\ ~StartsWith(player_name, <<".">>)

\* The condition of the 'continue' in the PlayerScores loop.
SkipEntry(bl, wl, dots, player_name) ==
    \/ Truthy(PyList(bl)) /\ player_name \in Range(bl)
    \/ /\ Truthy(PyList(wl)) /\ player_name \notin Range(wl)
       /\ dots /\ ~StartsWith(player_name, <<".">>)

\* Mutant: a score already stored for the pair is kept (setdefault).
MergeEntryKeepFirst(scores, entry) ==
    LET made == IF ~Has(scores, entry.Name)
                THEN Put(scores, entry.Name, PyDict(<<>>))
                ELSE scores
        objs == Get(made, entry.Name).v
    IN  IF Has(objs, entry.Objective) THEN made
        ELSE Put(made, entry.Name,
                 PyDict(Put(objs, entry.Objective, PyInt(entry.Score))))

\* self.player_scores[player_name][objective] = score, the player entry made first.
MergeEntry(scores, entry) ==
    LET made == IF ~Has(scores, entry.Name)
                THEN Put(scores, entry.Name, PyDict(<<>>))
                ELSE scores
    IN  Put(made, entry.Name,
            PyDict(Put(Get(made, entry.Name).v, entry.Objective, PyInt(entry.Score))))

\* NBTFile(data_source)['data'], then Teams, Objectives and DisplaySlots.
OpenDat ==
    /\ pc = "source"
    /\ data_source = "dat"
    /\ \E file \in DatFiles :
        /\ data' = file
        /\ teams' = PyDict(TeamsOf(file.Teams, <<>>))
        /\ objectives' = PyDict(ObjectivesOf(file.Objectives, <<>>))
        /\ display_slots' = PyDict(DisplaySlotsOf(file.DisplaySlots, <<>>))
    /\ opened' = Append(opened, "source")
    /\ player_scores' = PyDict(<<>>)
    /\ next_entry' = 1
    /\ pc' = "scores"
    /\ UNCHANGED <<args, filters, ranking, reloaded>>

\* One turn of the PlayerScores loop.
ReadEntry ==
    /\ pc = "scores"
    /\ next_entry <= Len(data.PlayerScores)
    /\ LET entry == data.PlayerScores[next_entry]
       IN  player_scores' =
               IF SkipEntry(player_blacklist, player_whitelist,
                            include_dot_names, entry.Name)
               THEN player_scores
               ELSE PyDict(MergeEntry(player_scores.v, entry))
    /\ next_entry' = next_entry + 1
    /\ UNCHANGED <<pc, args, filters, opened, data, teams, objectives,
                   display_slots, ranking, reloaded>>

\* The PlayerScores loop is exhausted: the constructor returns.
EndOfScores ==
    /\ pc = "scores"
    /\ next_entry > Len(data.PlayerScores)
    /\ pc' = "done"
    /\ UNCHANGED <<args, filters, opened, data, next_entry, record, ranking, reloaded>>

-----------------------------------------------------------------------------
(* The .json branch, and __dict__ *)

\* Mutant: 'DisplaySlots' is given self.objectives.
DictOfSlotsFromObjectives(t, o, p, d) ==
    PyDict(<< <<<<"Teams">>, t>>,
              <<<<"Objectives">>, o>>,
              <<<<"PlayerScores">>, p>>,
              <<<<"DisplaySlots">>, o>> >>)

\* Scoreboard.__dict__
DictOf(t, o, p, d) ==
    PyDict(<< <<<<"Teams">>, t>>,
              <<<<"Objectives">>, o>>,
              <<<<"PlayerScores">>, p>>,
              <<<<"DisplaySlots">>, d>> >>)

\* The four assignments from json_data.
JsonBranch(json_data) ==
    [teams |-> Get(json_data.v, <<"Teams">>),
     objectives |-> Get(json_data.v, <<"Objectives">>),
     player_scores |-> Get(json_data.v, <<"PlayerScores">>),
     display_slots |-> Get(json_data.v, <<"DisplaySlots">>)]

RECURSIVE MergeAll(_, _)
MergeAll(entries, acc) ==
    IF entries = <<>> THEN acc
    ELSE MergeAll(Tail(entries), MergeEntry(acc, Head(entries)))

\* The .json files: the JSON output of a Scoreboard read with no filter.
JsonFiles ==
    {JsonDump(DictOf(PyDict(TeamsOf(f.Teams, <<>>)),
                     PyDict(ObjectivesOf(f.Objectives, <<>>)),
                     PyDict(MergeAll(f.PlayerScores, <<>>)),
                     PyDict(DisplaySlotsOf(f.DisplaySlots, <<>>)))) : f \in DatFiles}

OpenJson ==
    /\ pc = "source"
    /\ data_source = "json"
    /\ \E file \in JsonFiles :
        LET loaded == JsonBranch(JsonLoad(file))
        IN  /\ teams' = loaded.teams
            /\ objectives' = loaded.objectives
            /\ player_scores' = loaded.player_scores
            /\ display_slots' = loaded.display_slots
    /\ opened' = Append(opened, "source")
    /\ pc' = "done"
    /\ UNCHANGED <<args, filters, data, next_entry, ranking, reloaded>>

\* Dump this Scoreboard's __dict__() to JSON and build a Scoreboard from that
\* file; the filter parameters do not enter the .json branch.
Reload ==
    /\ pc = "done"
    /\ data_source = "dat"
    /\ reloaded' = JsonBranch(JsonLoad(JsonDump(
                       DictOf(teams, objectives, player_scores, display_slots))))
    /\ pc' = "reloaded"
    /\ UNCHANGED <<args, filters, opened, data, next_entry, record, ranking>>

-----------------------------------------------------------------------------
(* Scoreboard.get_objective_scores *)

\* The inner loop: the score of the first objective equal to the target (break),
\* or the empty dict the entry was established with.
RECURSIVE FindObjective(_, _)
FindObjective(objs, target_objective) ==
    IF objs = <<>> THEN PyDict(<<>>)
    ELSE IF Head(objs)[1] = target_objective THEN Head(objs)[2]
    ELSE FindObjective(Tail(objs), target_objective)

\* What survives 'if not unsorted_scores[player]: pop'.
Kept(found) == Truthy(found)

\* The outer loop over self.player_scores.items(), building unsorted_scores.
RECURSIVE UnsortedScores(_, _, _)
UnsortedScores(players, target_objective, acc) ==
    IF players = <<>> THEN acc
    ELSE LET player == Head(players)[1]
             found == FindObjective(Head(players)[2].v, target_objective)
             stored == Put(acc, player, found)
         IN  UnsortedScores(Tail(players), target_objective,
                            IF Kept(found) THEN stored ELSE Pop(stored, player))

\* list.sort: stable, ascending by the score of the item.
RECURSIVE InsertSorted(_, _)
InsertSorted(sorted, item) ==
    IF sorted = <<>> THEN <<item>>
    ELSE IF sorted[Len(sorted)][2].v <= item[2].v THEN Append(sorted, item)
    ELSE Append(InsertSorted(SubSeq(sorted, 1, Len(sorted) - 1), item),
                sorted[Len(sorted)])

RECURSIVE SortStable(_, _)
SortStable(items, acc) ==
    IF items = <<>> THEN acc
    ELSE SortStable(Tail(items), InsertSorted(acc, Head(items)))

\* Mutant: reverse only reverses the ascending result.
SortedThenReversed(items, reverse) ==
    IF reverse THEN Reverse(SortStable(items, <<>>))
    ELSE SortStable(items, <<>>)

\* sorted(items, key=lambda x: x[1], reverse=reverse); with reverse the list is
\* reversed, sorted and reversed again, which keeps equal keys in their order.
Sorted(items, reverse) ==
    IF reverse THEN Reverse(SortStable(Reverse(items), <<>>))
    ELSE SortStable(items, <<>>)

GetObjectiveScores(scores, target_objective, ascending) ==
    Sorted(UnsortedScores(scores, target_objective, <<>>), ~ascending)

Query ==
    /\ pc = "done"
    /\ \E target_objective \in ObjectiveNames, ascending \in BOOLEAN :
        ranking' = [called |-> TRUE, target |-> target_objective,
                    ascending |-> ascending,
                    result |-> GetObjectiveScores(player_scores.v, target_objective,
                                                  ascending)]
    /\ pc' = "queried"
    /\ UNCHANGED <<args, filters, opened, data, next_entry, record, reloaded>>

-----------------------------------------------------------------------------

Next ==
    \/ CheckFilters
    \/ ReadWhitelist
    \/ ReadBlacklist
    \/ OpenDat
    \/ ReadEntry
    \/ EndOfScores
    \/ OpenJson
    \/ Reload
    \/ Query

Spec == Init /\ [][Next]_vars

-----------------------------------------------------------------------------
(* Properties *)

IsDotName(p) == StartsWith(p, <<".">>)
Parsed == player_scores.t = "dict"
Offline(e) == StartsWith(e.uuid, OfflinePrefix)

\* C1: built from a .dat source with a non-empty effective whitelist, every
\* player of player_scores is in the whitelist, or include_dot_names is set
\* and the name starts with '.'.
C1_WhitelistInvariant ==
    (data_source = "dat" /\ Parsed /\ player_whitelist # <<>>) =>
        \A p \in Keys(player_scores.v) :
            \/ p \in Range(player_whitelist)
            \/ include_dot_names /\ IsDotName(p)

\* C2: built from a .dat source with a non-empty effective blacklist, no
\* player of player_scores is in the blacklist, dot names included.
C2_BlacklistInvariant ==
    (data_source = "dat" /\ Parsed /\ player_blacklist # <<>>) =>
        \A p \in Keys(player_scores.v) : p \notin Range(player_blacklist)

\* A blacklisted dot name had a score in the source, include_dot_names was
\* set, and another player was kept.
C2_Witness ==
    /\ pc = "done" /\ data_source = "dat" /\ include_dot_names
    /\ dotsteve \in Range(player_blacklist)
    /\ \E k \in DOMAIN data.PlayerScores : data.PlayerScores[k].Name = dotsteve
    /\ Keys(player_scores.v) = {alice}

\* C3: a whitelist or blacklist given as a list of usernames is the effective
\* filter list of the constructor.
C3_ListIsEffectiveFilter ==
    pc \in {"source", "scores", "done", "queried", "reloaded"} =>
        /\ whitelist_arg.t = "list" => player_whitelist = whitelist_arg.v
        /\ blacklist_arg.t = "list" => player_blacklist = blacklist_arg.v

\* C4: with a non-empty whitelist and a non-empty blacklist the constructor
\* raises, before any file is opened and with no attribute of the record set.
C4_BothFiltersRaise ==
    (Truthy(whitelist_arg) /\ Truthy(blacklist_arg)) =>
        /\ pc \in {"call", "raised"}
        /\ opened = <<>>
        /\ teams = Unset /\ objectives = Unset
        /\ display_slots = Unset /\ player_scores = Unset

\* The constructor raised when given two filter files.
C4_Witness ==
    /\ pc = "raised"
    /\ whitelist_arg = PathArg /\ blacklist_arg = PathArg

\* C5: get_objective_scores(X) holds exactly one pair (p, player_scores[p][X])
\* for every player p that has X, whatever the score, and none for the others.
C5_RankingMembership ==
    ranking.called =>
        LET r == ranking.result
        IN  /\ \A p \in Keys(player_scores.v) :
                LET objs == Get(player_scores.v, p).v
                    at == {k \in DOMAIN r : r[k][1] = p}
                IN  IF Has(objs, ranking.target)
                    THEN /\ Cardinality(at) = 1
                         /\ \A k \in at : r[k][2] = Get(objs, ranking.target)
                    ELSE at = {}
            /\ \A k \in DOMAIN r : r[k][1] \in Keys(player_scores.v)

PositionOf(p) == CHOOSE k \in DOMAIN player_scores.v : player_scores.v[k][1] = p

\* C6: the result of get_objective_scores is non-increasing in score, or
\* non-decreasing with ascending, and players of equal score stand in the
\* order of player_scores.
C6_RankingOrder ==
    ranking.called =>
        LET r == ranking.result
        IN  \A i, j \in DOMAIN r :
                i < j =>
                    /\ ranking.ascending => r[i][2].v <= r[j][2].v
                    /\ ~ranking.ascending => r[i][2].v >= r[j][2].v
                    /\ r[i][2].v = r[j][2].v => PositionOf(r[i][1]) < PositionOf(r[j][1])

\* A descending ranking of two players with the same score.
C6_Witness ==
    /\ ranking.called /\ ~ranking.ascending
    /\ Len(ranking.result) = 2
    /\ ranking.result[1][2].v = ranking.result[2][2].v

\* An entry the filter lets through; with no filter, every entry.
Accepted(entry) ==
    \/ player_whitelist = <<>> /\ player_blacklist = <<>>
    \/ ~SkipEntry(player_blacklist, player_whitelist, include_dot_names, entry.Name)

\* C7: for the entries read so far from a .dat source, player_scores[p][o] is
\* the score of the last accepted entry of (p, o), and player_scores has no
\* player and no objective without an accepted entry.
C7_MergeInvariant ==
    (data_source = "dat" /\ Parsed) =>
        LET read == SubSeq(data.PlayerScores, 1, next_entry - 1)
            scores == player_scores.v
            hits(p, o) == {k \in DOMAIN read : /\ read[k].Name = p
                                               /\ read[k].Objective = o
                                               /\ Accepted(read[k])}
            last(S) == CHOOSE k \in S : \A m \in S : m <= k
        IN  /\ Keys(scores) \subseteq PlayerNames
            /\ \A p \in Keys(scores) :
                /\ Keys(Get(scores, p).v) \subseteq ObjectiveNames
                /\ \E o \in ObjectiveNames : hits(p, o) # {}
            /\ \A p \in PlayerNames, o \in ObjectiveNames :
                IF hits(p, o) = {}
                THEN ~(Has(scores, p) /\ Has(Get(scores, p).v, o))
                ELSE /\ Has(scores, p)
                     /\ Has(Get(scores, p).v, o)
                     /\ Get(Get(scores, p).v, o) = PyInt(read[last(hits(p, o))].Score)

\* Two entries of one (player, objective) pair with different scores were merged.
C7_Witness ==
    /\ pc = "done" /\ data_source = "dat"
    /\ Len(data.PlayerScores) = 2
    /\ data.PlayerScores[1].Name = data.PlayerScores[2].Name
    /\ data.PlayerScores[1].Objective = data.PlayerScores[2].Objective
    /\ data.PlayerScores[1].Score # data.PlayerScores[2].Score
    /\ player_scores.v # <<>>

\* C8: the Scoreboard read back from the JSON output of a Scoreboard that was
\* built from a .dat source has equal teams, objectives, player_scores and
\* display_slots.
C8_RoundTrip ==
    pc = "reloaded" =>
        /\ PyEq(reloaded.teams, teams)
        /\ PyEq(reloaded.objectives, objectives)
        /\ PyEq(reloaded.player_scores, player_scores)
        /\ PyEq(reloaded.display_slots, display_slots)

\* A filtered Scoreboard with a team, a player and a negative score was read back.
C8_Witness ==
    /\ pc = "reloaded"
    /\ player_whitelist # <<>>
    /\ teams.v # <<>>
    /\ \E k \in DOMAIN player_scores.v :
        \E m \in DOMAIN player_scores.v[k][2].v : player_scores.v[k][2].v[m][2].v < 0
    /\ \E k \in DOMAIN data.PlayerScores :
        data.PlayerScores[k].Name \notin Keys(player_scores.v)

\* C9 as stated: in a whitelist and in a blacklist read from a file, the name
\* of an entry is in the effective list iff its uuid is not an offline one.
C9_OfflineExcludedFromBoth ==
    /\ \A k \in DOMAIN whitelist_json :
        whitelist_json[k].name \in Range(player_whitelist) <=> ~Offline(whitelist_json[k])
    /\ \A k \in DOMAIN blacklist_json :
        blacklist_json[k].name \in Range(player_blacklist) <=> ~Offline(blacklist_json[k])

\* C9 amended: the effective whitelist read from a file is the names of its
\* entries whose uuid is not an offline one; the effective blacklist read from
\* a file is the names of all its entries, offline or not.
C9_WhitelistOnlyExcludesOffline ==
    /\ "whitelist" \in Range(opened) =>
        /\ Range(player_whitelist) =
               {whitelist_json[k].name :
                   k \in {m \in DOMAIN whitelist_json : ~Offline(whitelist_json[m])}}
        /\ Len(player_whitelist) =
               Cardinality({m \in DOMAIN whitelist_json : ~Offline(whitelist_json[m])})
    /\ "blacklist" \in Range(opened) =>
        /\ Range(player_blacklist) =
               {blacklist_json[k].name : k \in DOMAIN blacklist_json}
        /\ Len(player_blacklist) = Len(blacklist_json)

\* A blacklist file with an offline entry was read, and the entry's name is in
\* the effective blacklist.
C9_Witness ==
    /\ "blacklist" \in Range(opened)
    /\ \E k \in DOMAIN blacklist_json :
        /\ Offline(blacklist_json[k])
        /\ blacklist_json[k].name \in Range(player_blacklist)

\* C10: built from a .json source, player_scores has no blacklisted player,
\* and under a whitelist only whitelisted players and allowed dot names.
C10_JsonSourceFiltered ==
    (data_source = "json" /\ Parsed) =>
        /\ player_blacklist # <<>> =>
            \A p \in Keys(player_scores.v) : p \notin Range(player_blacklist)
        /\ player_whitelist # <<>> =>
            \A p \in Keys(player_scores.v) :
                \/ p \in Range(player_whitelist)
                \/ include_dot_names /\ IsDotName(p)

====
